---------------------------- MODULE Spec2Model ----------------------------
(***************************************************************************)
(* The DA-record viewer: the API Gateway (backend/index.js, one route,     *)
(* GET /api/data) in front of the hosted Data Service, and the             *)
(* Presentation Client (the React component App) that fetches the route    *)
(* once on mount and renders the rows as a table.                          *)
(*                                                                         *)
(* The Data Service is outside the repository.  It is modelled as the      *)
(* environment of the route: it completes a query with rows or with an     *)
(* error value, it may or may not apply the ordering the query asks for,   *)
(* its call may reject, and it may never complete.                         *)
(***************************************************************************)
EXTENDS Integers, Sequences, FiniteSets, TLC

VARIABLES
    table,          \* the rows of table 'scrapedata', in storage order
    pc,             \* per gateway request: position of the route handler
    queries,        \* per gateway request: Data Service queries issued
    outcome,        \* per gateway request: what the await produced ({data, error})
    res,            \* per gateway request: the HTTP response sent
    clientPc,       \* position of the Presentation Client
    rows,           \* App's state: const [rows, setRows] = useState([])
    dom,            \* what App last rendered
    renders,        \* number of renders of App
    fetches,        \* number of axios.get calls issued
    committedDeps,  \* the useEffect dependency array of the last commit
    consoleErrors,  \* number of console.error calls of the .catch handler
    uncaught        \* TRUE once a rejection escaped without a handler

vars == <<table, pc, queries, outcome, res, clientPc, rows, dom, renders,
          fetches, committedDeps, consoleErrors, uncaught>>

gatewayVars == <<pc, queries, outcome, res>>
clientVars == <<clientPc, rows, dom, renders, fetches, committedDeps,
                consoleErrors, uncaught>>

-----------------------------------------------------------------------------
(* Bounds of the model *)

MaxReq == 2     \* gateway requests in flight; request 1 is the client's
MaxRows == 3    \* rows held by the table
MaxLiveRows == 1 \* rows held by the table under FairSpec

Req == 1..MaxReq
ClientReq == 1

-----------------------------------------------------------------------------
(* JavaScript values *)

JsNull == "<null>"
JsUndefined == "<undefined>"

\* JavaScript truthiness of a string-or-null value: null, undefined and the
\* empty string are falsy, every other string is truthy.
Truthy(v) == v # JsNull /\ v # JsUndefined /\ v # ""

\* Property read: a missing property reads as undefined.
Get(row, k) == IF k \in DOMAIN row THEN row[k] ELSE JsUndefined

-----------------------------------------------------------------------------
(* The DA records *)

\* The columns the table has and the component reads, in column order.
Fields == <<"DA_Number", "Detail_URL", "Description", "Submitted_Date",
            "Decision", "Categories", "Property_Address", "Applicant",
            "Progress", "Fees", "Documents", "Contact_Council">>

TableColumns == {Fields[i] : i \in DOMAIN Fields}

DANumbers == {3, 5, 9, 12}

NotAvailable == "Not available"

DetailUrlOf(n) ==
    CASE n = 3 -> "https://example.com/da/3"
      [] n = 5 -> "https://example.com/da/5"
      [] n = 9 -> "https://example.com/da/9"
      [] OTHER -> "https://example.com/da/123"

DocumentsOf(n) ==
    CASE n = 3 -> NotAvailable
      [] n = 5 -> "https://example.com/doc.pdf"
      [] n = 9 -> JsNull
      [] OTHER -> ""

DARecord(n) ==
    [DA_Number |-> n,
     Detail_URL |-> DetailUrlOf(n),
     Description |-> "Dwelling",
     Submitted_Date |-> "01/02/2024",
     Decision |-> "Approved",
     Categories |-> "Residential",
     Property_Address |-> "1 Main St",
     Applicant |-> "A. Applicant",
     Progress |-> "Determined",
     Fees |-> "Paid",
     Documents |-> DocumentsOf(n),
     Contact_Council |-> "Contact"]

DAs(s) == [i \in DOMAIN s |-> Get(s[i], "DA_Number")]

Distinct(s) == \A i, j \in DOMAIN s : i # j => s[i] # s[j]

\* The tables the Data Service can hold: DA_Number is unique across records.
Tables ==
    UNION {{[i \in 1..k |-> DARecord(f[i])] :
              f \in {g \in [1..k -> DANumbers] : Distinct(g)}} : k \in 0..MaxRows}

-----------------------------------------------------------------------------
(* The Data Service query of the route *)

RECURSIVE SortBy(_, _)
\* ORDER BY DA_Number: ascending or descending.
SortBy(s, ascending) ==
    IF s = <<>> THEN <<>>
    ELSE LET first == CHOOSE i \in DOMAIN s :
                        \A j \in DOMAIN s :
                           IF ascending THEN s[i].DA_Number <= s[j].DA_Number
                                        ELSE s[i].DA_Number >= s[j].DA_Number
             rest == [k \in 1..(Len(s) - 1) |-> IF k < first THEN s[k] ELSE s[k + 1]]
         IN <<s[first]>> \o SortBy(rest, ascending)

QueryColumnsNarrow == {"DA_Number", "Description"}
\* .select("*")
QueryColumns == TableColumns

OrderAscendingTrue == TRUE
\* .order("DA_Number", { ascending: false })
OrderAscending == FALSE

Project(row, cols) == [k \in cols |-> row[k]]

NoError == [present |-> FALSE, message |-> ""]
NoData == [isNull |-> TRUE, rows |-> <<>>]
Data(s) == [isNull |-> FALSE, rows |-> s]

\* The rows a completed query hands back: the selected columns of every row,
\* ordered as the query asks when the Data Service applies the ordering, in
\* storage order when it does not.  The outcome's field "ordered" records
\* which of the two the Data Service did; the route never reads it.
Selected(honoursOrder) ==
    LET projected == [i \in DOMAIN table |-> Project(table[i], QueryColumns)]
    IN IF honoursOrder THEN SortBy(projected, OrderAscending) ELSE projected

Partial(s) == IF s = <<>> THEN <<>> ELSE <<s[1]>>

\* The error values a failed query hands back: with data null, or with the
\* rows read so far.
Failures ==
    {[data |-> NoData, ordered |-> FALSE,
      error |-> [present |-> TRUE, message |-> "permission denied"]],
     [data |-> Data(Partial(Selected(TRUE))), ordered |-> FALSE,
      error |-> [present |-> TRUE, message |-> "statement timeout"]]}

Successes == {[data |-> Data(Selected(h)), error |-> NoError, ordered |-> h] : h \in BOOLEAN}

NoOutcome == [data |-> NoData, error |-> NoError, ordered |-> FALSE]

-----------------------------------------------------------------------------
(* JSON *)

KeysOf(row) == SelectSeq(Fields, LAMBDA k : k \in DOMAIN row)

\* JSON.stringify of one row: its members, in column order.
JsonObject(row) == [i \in DOMAIN KeysOf(row) |-> <<KeysOf(row)[i], row[KeysOf(row)[i]]>>]

\* JSON.parse of one object.
ParseObject(obj) ==
    [k \in {obj[i][1] : i \in DOMAIN obj} |->
        obj[CHOOSE i \in DOMAIN obj : obj[i][1] = k][2]]

NoBody == [kind |-> "none", items |-> <<>>]

\* res.json(data)
DataBody(data) ==
    IF data.isNull THEN [kind |-> "null", items |-> <<>>]
    ELSE [kind |-> "array", items |-> [i \in DOMAIN data.rows |-> JsonObject(data.rows[i])]]

\* res.json({ error: error.message })
ErrorBody(error) == [kind |-> "object", items |-> <<<<"error", error.message>>>>]

\* A parsed JSON value: an array of objects, one object, or null.
Arr(s) == [kind |-> "array", items |-> s]

\* axios: res.data of a JSON body.
ParseBody(body) ==
    CASE body.kind = "array" -> Arr([i \in DOMAIN body.items |-> ParseObject(body.items[i])])
      [] body.kind = "object" -> [kind |-> "object", items |-> ParseObject(body.items)]
      [] OTHER -> [kind |-> "null", items |-> <<>>]

-----------------------------------------------------------------------------
(* The route handler *)

NoResponse == [status |-> 0, body |-> NoBody, sends |-> 0]

\* Express: the first send fixes status and body; a later one is refused.
Send(r, status, body) ==
    IF r.sends = 0 THEN [status |-> status, body |-> body, sends |-> 1]
    ELSE [r EXCEPT !.sends = @ + 1]

RouteNoReturn(o) ==
    LET first == IF o.error.present THEN Send(NoResponse, 500, ErrorBody(o.error))
                 ELSE NoResponse
    IN Send(first, 200, DataBody(o.data))
RouteIgnoresError(o) == Send(NoResponse, 200, DataBody(o.data))
\* Lines 22-27: the error branch returns, so exactly one of the two sends runs.
RouteResponse(o) ==
    IF o.error.present
    THEN Send(NoResponse, 500, ErrorBody(o.error))
    ELSE Send(NoResponse, 200, DataBody(o.data))

HasResult(q) == pc[q] \in {"resumed", "done"}
SharedResult(r) ==
    outcome[CHOOSE q \in Req : HasResult(q) /\ \A p \in Req : HasResult(p) => q <= p]
\* const { data, error } = await ...: bound in the invocation's own scope.
AwaitedResult(r) == outcome[r]

\* The handler holds one supabase call.
QueriesPerRequest == 1

\* A request reaches the route; the handler runs up to its await.  Request 1
\* is the one the Presentation Client sends; the others come from other
\* callers, which are interchangeable and so arrive in index order.
Arrive(r) ==
    /\ pc[r] = "idle"
    /\ IF r = ClientReq THEN clientPc = "fetching"
       ELSE \A q \in Req : (q # ClientReq /\ q < r) => pc[q] # "idle"
    /\ pc' = [pc EXCEPT ![r] = "awaiting"]
    /\ queries' = [queries EXCEPT ![r] = @ + QueriesPerRequest]
    /\ UNCHANGED <<table, outcome, res, clientVars>>

\* The query completes with rows.
QuerySucceeds(r) ==
    /\ pc[r] = "awaiting"
    /\ \E o \in Successes : outcome' = [outcome EXCEPT ![r] = o]
    /\ pc' = [pc EXCEPT ![r] = "resumed"]
    /\ UNCHANGED <<table, queries, res, clientVars>>

\* The query completes with an error value.
QueryFails(r) ==
    /\ pc[r] = "awaiting"
    /\ \E o \in Failures : outcome' = [outcome EXCEPT ![r] = o]
    /\ pc' = [pc EXCEPT ![r] = "resumed"]
    /\ UNCHANGED <<table, queries, res, clientVars>>

\* The query call rejects: the await throws and the handler has no catch.
QueryRejects(r) ==
    /\ pc[r] = "awaiting"
    /\ pc' = [pc EXCEPT ![r] = "rejected"]
    /\ UNCHANGED <<table, queries, outcome, res, clientVars>>

\* The handler continues after the await and sends its response.
Continue(r) ==
    /\ pc[r] = "resumed"
    /\ res' = [res EXCEPT ![r] = RouteResponse(AwaitedResult(r))]
    /\ pc' = [pc EXCEPT ![r] = "done"]
    /\ UNCHANGED <<table, queries, outcome, clientVars>>

-----------------------------------------------------------------------------
(* The Presentation Client *)

HeaderCells == <<"DA Number", "Detail URL", "Description", "Submitted Date",
                 "Decision", "Categories", "Property Address", "Applicant",
                 "Progress", "Fees", "Documents", "Contact Council">>

\* React renders null and undefined children as nothing.
Text(v) == [kind |-> "text", href |-> "", text |-> IF v \in {JsNull, JsUndefined} THEN "" ELSE v]
Link(href, text) == [kind |-> "link", href |-> href, text |-> text]

DetailUrlCellLabel(row) == Link(Get(row, "Detail_URL"), "Detail URL")
\* <a href={row.Detail_URL}>{row.Detail_URL}</a>
DetailUrlCell(row) == Link(Get(row, "Detail_URL"), Get(row, "Detail_URL"))

DocumentsCellNoTruthTest(row) ==
    IF Get(row, "Documents") # NotAvailable
    THEN Link(Get(row, "Documents"), "View Documents")
    ELSE Text(NotAvailable)
\* row.Documents && row.Documents !== "Not available" ? <a ...> : "Not available"
DocumentsCell(row) ==
    IF Truthy(Get(row, "Documents")) /\ Get(row, "Documents") # NotAvailable
    THEN Link(Get(row, "Documents"), "View Documents")
    ELSE Text(NotAvailable)

RenderRow(row) ==
    [key |-> Get(row, "DA_Number"),
     detail |-> DetailUrlCell(row),
     documents |-> DocumentsCell(row),
     texts |-> [k \in TableColumns \ {"DA_Number", "Detail_URL", "Documents"} |->
                  Text(Get(row, k))]]

\* The JSX of App: the header row and one <tr> per element of rows, in order.
\* rows.map throws when rows is not an array, and nothing is rendered.
Render(rs) ==
    IF rs.kind = "array"
    THEN [crashed |-> FALSE, header |-> HeaderCells,
          body |-> [i \in DOMAIN rs.items |-> RenderRow(rs.items[i])]]
    ELSE [crashed |-> TRUE, header |-> <<>>, body |-> <<>>]

SetRowsSorted(data) == IF data.kind = "array" THEN Arr(SortBy(data.items, TRUE)) ELSE data
\* .then((res) => setRows(res.data))
SetRows(data) == data

ValidateAnyStatus(status) == TRUE
\* axios resolves on a 2xx status and rejects on every other.
ValidateStatus(status) == status >= 200 /\ status < 300

EffectDepsRows == <<rows>>
\* useEffect(..., [])
EffectDeps == <<>>

HasCatchFalse == FALSE
\* .catch((err) => console.error(err))
HasCatch == TRUE

\* The promise of axios.get rejected: .then is skipped, .catch logs.
Rejected ==
    /\ clientPc' = "failed"
    /\ IF HasCatch
       THEN consoleErrors' = consoleErrors + 1 /\ UNCHANGED uncaught
       ELSE uncaught' = TRUE /\ UNCHANGED consoleErrors
    /\ UNCHANGED <<rows, dom, renders, fetches, committedDeps>>

\* Page load: App mounts, renders with rows = [], and the effect runs.
Mount ==
    /\ clientPc = "unloaded"
    /\ dom' = Render(rows)
    /\ renders' = renders + 1
    /\ committedDeps' = EffectDeps
    /\ fetches' = fetches + 1
    /\ clientPc' = "fetching"
    /\ uncaught' = (uncaught \/ Render(rows).crashed)
    /\ UNCHANGED <<rows, consoleErrors, table, gatewayVars>>

\* The request or its response is lost on the network.
NetworkError ==
    /\ clientPc = "fetching"
    /\ Rejected
    /\ UNCHANGED <<table, gatewayVars>>

\* The gateway's response reaches axios.
Deliver ==
    /\ clientPc = "fetching"
    /\ pc[ClientReq] = "done"
    /\ IF ValidateStatus(res[ClientReq].status)
       THEN /\ rows' = SetRows(ParseBody(res[ClientReq].body))
            /\ clientPc' = "stale"
            /\ UNCHANGED <<dom, renders, fetches, committedDeps, consoleErrors, uncaught>>
       ELSE Rejected
    /\ UNCHANGED <<table, gatewayVars>>

\* The re-render a state change schedules; the effect runs again only when
\* its dependency array differs from the committed one.
Rerender ==
    /\ clientPc = "stale"
    /\ dom' = Render(rows)
    /\ renders' = renders + 1
    /\ committedDeps' = EffectDeps
    /\ IF EffectDeps # committedDeps
       THEN fetches' = fetches + 1 /\ clientPc' = "fetching"
       ELSE UNCHANGED fetches /\ clientPc' = "shown"
    /\ uncaught' = (uncaught \/ Render(rows).crashed)
    /\ UNCHANGED <<rows, consoleErrors, table, gatewayVars>>

-----------------------------------------------------------------------------

Init ==
    /\ table \in Tables
    /\ pc = [r \in Req |-> "idle"]
    /\ queries = [r \in Req |-> 0]
    /\ outcome = [r \in Req |-> NoOutcome]
    /\ res = [r \in Req |-> NoResponse]
    /\ clientPc = "unloaded"
    /\ rows = Arr(<<>>)
    /\ dom = [crashed |-> FALSE, header |-> <<>>, body |-> <<>>]
    /\ renders = 0
    /\ fetches = 0
    /\ committedDeps = <<>>
    /\ consoleErrors = 0
    /\ uncaught = FALSE

Next ==
    \/ Mount
    \/ NetworkError
    \/ Deliver
    \/ Rerender
    \/ \E r \in Req : Arrive(r)
    \/ \E r \in Req : QuerySucceeds(r)
    \/ \E r \in Req : QueryFails(r)
    \/ \E r \in Req : QueryRejects(r)
    \/ \E r \in Req : Continue(r)

Spec == Init /\ [][Next]_vars

FairInit == Init /\ Len(table) <= MaxLiveRows

\* The event loop runs the continuation of every await that completed.  The
\* handler's control flow does not read the rows, so the behaviours are
\* explored over the smaller tables only.
FairSpec ==
    /\ FairInit
    /\ [][Next]_vars
    /\ \A r \in Req : WF_vars(Continue(r))

-----------------------------------------------------------------------------
(* Properties *)

\* The DA_Number members of a response array, in response order.
BodyDAs(body) == [i \in DOMAIN body.items |-> ParseObject(body.items[i]).DA_Number]

Descending(s) == \A i, j \in DOMAIN s : i < j => s[i] >= s[j]

Ok(r) == pc[r] = "done" /\ res[r].status = 200

\* C1 (as stated): every successful response is ordered by DA_Number
\* descending, whatever order the Data Service handed the records back in.
C1_DescendingWhateverOrder == \A r \in Req : Ok(r) => Descending(BodyDAs(res[r].body))

\* C1 (amended): a successful response lists the records exactly in the order
\* the Data Service handed them back, and that order is DA_Number descending
\* whenever the Data Service applied the ordering the query asks for.
C1_ForwardsRequestedOrder ==
    \A r \in Req : Ok(r) =>
        /\ BodyDAs(res[r].body) = DAs(outcome[r].data.rows)
        /\ outcome[r].ordered => Descending(BodyDAs(res[r].body))

C1_Witness ==
    \E r \in Req :
        /\ Ok(r) /\ outcome[r].ordered
        /\ Len(table) >= 3 /\ ~Descending(DAs(table))
        /\ Len(res[r].body.items) = Len(table)

\* C2: when the query returned an error, the response is status 500 with a
\* JSON object whose only member is error, holding the error's message, and
\* carries no row data.
C2_ErrorResponse ==
    \A r \in Req : (pc[r] = "done" /\ outcome[r].error.present) =>
        /\ res[r].status = 500
        /\ res[r].body.kind = "object"
        /\ res[r].body.items = <<<<"error", outcome[r].error.message>>>>
        /\ res[r].sends = 1

C2_Witness ==
    \E r \in Req :
        /\ pc[r] = "done" /\ outcome[r].error.present
        /\ ~outcome[r].data.isNull /\ outcome[r].data.rows # <<>>
        /\ res[r].status = 500

\* C3: every element of a successful response has exactly the twelve fields
\* of the DA Record, and no two elements share a DA_Number.
C3_TwelveFieldsUniqueDA ==
    \A r \in Req : Ok(r) =>
        /\ res[r].body.kind = "array"
        /\ \A i \in DOMAIN res[r].body.items :
              [k \in DOMAIN res[r].body.items[i] |-> res[r].body.items[i][k][1]] = Fields
        /\ Distinct(BodyDAs(res[r].body))

C3_Witness == \E r \in Req : Ok(r) /\ Len(res[r].body.items) >= 2

\* C4: the client issues the fetch exactly once per page load: once on mount,
\* never again after a state change or a re-render, never as a retry.
C4_FetchOnce ==
    /\ fetches <= 1
    /\ clientPc # "unloaded" => fetches = 1

C4_Witness == clientPc = "shown" /\ renders >= 2 /\ Len(rows.items) >= 1 /\ fetches = 1

\* C5: after a successful fetch the row collection is exactly the response
\* array, same elements in the same order, and the rendered data rows are in
\* the order of the response.
C5_RowsVerbatim ==
    clientPc \in {"stale", "shown"} =>
        /\ rows.kind = "array"
        /\ [i \in DOMAIN rows.items |-> JsonObject(rows.items[i])] = res[ClientReq].body.items
        /\ clientPc = "shown" =>
              [i \in DOMAIN dom.body |-> dom.body[i].key] = BodyDAs(res[ClientReq].body)

C5_Witness ==
    /\ clientPc = "shown"
    /\ Len(dom.body) >= 3
    /\ ~Descending(BodyDAs(res[ClientReq].body))

\* C6: when the fetch fails (network error or non-2xx response) the row
\* collection stays empty, the table shows the header and zero data rows, the
\* error body is never stored as rows, and no error escapes uncaught.
C6_FailureLeavesEmptyTable ==
    /\ ~uncaught
    /\ rows.kind = "array"
    /\ ~ValidateStatus(res[ClientReq].status) => rows = Arr(<<>>)
    /\ clientPc = "failed" =>
          /\ rows = Arr(<<>>)
          /\ dom.header = HeaderCells /\ dom.body = <<>> /\ ~dom.crashed
          /\ consoleErrors = 1

C6_Witness == clientPc = "failed" /\ res[ClientReq].status = 500 /\ table # <<>>

\* C7: the Documents cell of a rendered row is a hyperlink labelled
\* "View Documents" to the Documents value iff that value is present
\* (non-empty, non-null) and is not "Not available"; otherwise it is the text
\* "Not available" and no hyperlink.
C7_DocumentsCell ==
    clientPc = "shown" =>
        \A i \in DOMAIN dom.body :
            LET v == rows.items[i].Documents
                cell == dom.body[i].documents
            IN IF v \notin {JsNull, "", NotAvailable}
               THEN cell.kind = "link" /\ cell.href = v /\ cell.text = "View Documents"
               ELSE cell.kind = "text" /\ cell.text = "Not available"

C7_Witness ==
    /\ clientPc = "shown"
    /\ \E i \in DOMAIN dom.body : rows.items[i].Documents = "https://example.com/doc.pdf"
    /\ \E i \in DOMAIN dom.body : rows.items[i].Documents = NotAvailable
    /\ \E i \in DOMAIN dom.body : rows.items[i].Documents \in {JsNull, ""}

\* C8: the Detail_URL cell of a rendered row is a hyperlink whose target and
\* visible text are both the row's Detail_URL value.
C8_DetailUrlCell ==
    clientPc = "shown" =>
        \A i \in DOMAIN dom.body :
            /\ dom.body[i].detail.kind = "link"
            /\ dom.body[i].detail.href = rows.items[i].Detail_URL
            /\ dom.body[i].detail.text = rows.items[i].Detail_URL

C8_Witness ==
    /\ clientPc = "shown"
    /\ \E i \in DOMAIN dom.body : rows.items[i].Detail_URL = "https://example.com/da/123"

\* C9: each request performs exactly one Data Service query, and under any
\* interleaving its response is built from the outcome of its own query only.
C9_OwnQueryOnly ==
    \A r \in Req :
        /\ queries[r] = IF pc[r] = "idle" THEN 0 ELSE 1
        /\ pc[r] = "done" =>
              IF outcome[r].error.present
              THEN res[r].status = 500 /\ res[r].body = ErrorBody(outcome[r].error)
              ELSE res[r].status = 200 /\ res[r].body = DataBody(outcome[r].data)

C9_Witness ==
    \E r, q \in Req :
        /\ r < q /\ pc[q] = "done" /\ pc[r] = "resumed"
        /\ outcome[r].error.present /\ ~outcome[q].error.present
        /\ outcome[q].data.rows # <<>>

C10_ExactlyOneOrNone ==
    \A r \in Req :
        /\ pc[r] = "done" => res[r].sends = 1 /\ res[r].status \in {200, 500}
        /\ pc[r] # "done" => res[r] = NoResponse

\* C10: a request whose query completes receives exactly one response, 200
\* with the rows or 500 with the error object and never both; a request whose
\* query never completes or whose query call rejects receives none.
C10_OneResponse ==
    /\ []C10_ExactlyOneOrNone
    /\ \A r \in Req : (pc[r] = "resumed") ~> (pc[r] = "done")

C10_Witness ==
    \E r, q \in Req :
        /\ pc[r] = "done" /\ res[r].status = 500
        /\ pc[q] = "rejected" /\ res[q] = NoResponse

=============================================================================
